---- MODULE Spec2Model ----
(***************************************************************************)
(* A model of readme_gen.py, the GitHub-profile banner generator.          *)
(*                                                                         *)
(* Strings whose characters matter (element text, the age string) are      *)
(* sequences of one-character strings; identifiers and attribute values    *)
(* are TLA+ strings.  An optional value (an attribute that may be absent,  *)
(* Python's None) is <<>> when absent and <<v>> when present.              *)
(*                                                                         *)
(* Four specifications share the variables:                                *)
(*   Spec    the run of the script (__main__)                              *)
(*   SpecFR  one call of find_and_replace on a bounded document            *)
(*   SpecJF  one call of justify_format on a bounded template              *)
(*   SpecUp  one call of uptime_string on bounded dates                    *)
(***************************************************************************)
EXTENDS Integers, Sequences, FiniteSets, TLC

VARIABLES
  pc,            \* position of the run, or "call"/"ret" of a single function call
  args,          \* the inputs of the function call under study (SpecFR, SpecJF, SpecUp)
  root,          \* the document the function call works on
  raised,        \* the exception the function call raised, "none" if none
  out,           \* the string the function call returned
  QUERY_COUNT,   \* the module-level counter mapping
  server,        \* what the remote API knows about the user
  inflight,      \* the request awaiting its response, <<>> if none
  issued,        \* every request sent so far, in order
  responses,     \* every response received so far, in order
  now,           \* datetime.utcnow() as read by uptime_string, <<>> before
  vals,          \* the script's variables age, star_data, repo_data, ...
  files,         \* the template files on disk
  writes,        \* the files written so far, in order
  error,         \* the unhandled exception that ended the run, <<>> if none
  printed        \* the total the last line of the script printed, <<>> before

fnVars  == <<args, root, raised, out>>
runVars == <<QUERY_COUNT, server, inflight, issued, responses, now, vals, files,
             writes, error, printed>>
vars    == <<pc, args, root, raised, out, QUERY_COUNT, server, inflight, issued,
             responses, now, vals, files, writes, error, printed>>

Max(a, b) == IF a >= b THEN a ELSE b
Min(a, b) == IF a <= b THEN a ELSE b

(***************************************************************************)
(* Python values and their conversions to text.                            *)
(***************************************************************************)
IntVal(n)      == [kind |-> "int",   n |-> n, m |-> 0, s |-> <<>>]
StrVal(s)      == [kind |-> "str",   n |-> 0, m |-> 0, s |-> s]
TupleVal(n, m) == [kind |-> "tuple", n |-> n, m |-> m, s |-> <<>>]

DigitChars == <<"0", "1", "2", "3", "4", "5", "6", "7", "8", "9">>

RECURSIVE NatToStr(_)
NatToStr(n) ==
  IF n < 10 THEN <<DigitChars[n + 1]>>
  ELSE NatToStr(n \div 10) \o <<DigitChars[(n % 10) + 1]>>

\* str(n) of an int
IntToStr(n) == IF n < 0 THEN <<"-">> \o NatToStr(-n) ELSE NatToStr(n)

RECURSIVE GroupThousands(_)
GroupThousands(ds) ==
  IF Len(ds) <= 3 THEN ds
  ELSE GroupThousands(SubSeq(ds, 1, Len(ds) - 3)) \o <<",">>
       \o SubSeq(ds, Len(ds) - 2, Len(ds))

\* f"{n:,}"
FormatComma(n) ==
  IF n < 0 THEN <<"-">> \o GroupThousands(NatToStr(-n))
  ELSE GroupThousands(NatToStr(n))

\* str(v)
str(v) ==
  CASE v.kind = "int"   -> IntToStr(v.n)
    [] v.kind = "str"   -> v.s
    [] v.kind = "tuple" -> <<"(">> \o IntToStr(v.n) \o <<",", " ">>
                           \o IntToStr(v.m) \o <<")">>

(***************************************************************************)
(* Documents.  A document is the sequence of its elements in document      *)
(* order; element 1 is the root and parent = 0 marks it.                   *)
(***************************************************************************)
Elem(id, x, text, parent) == [id |-> id, x |-> x, text |-> text, parent |-> parent]

\* root.find(".//*[@id='<element_id>']"): the first descendant of the root, in
\* document order, whose id attribute is element_id; 0 stands for None.
findAnyId(rt, element_id) ==
  LET hits == {i \in 2..Len(rt) : rt[i].id # <<>>}
  IN  IF hits = {} THEN 0 ELSE CHOOSE i \in hits : \A j \in hits : i <= j
find(rt, element_id) ==
  LET hits == {i \in 2..Len(rt) : rt[i].id = <<element_id>>}
  IN  IF hits = {} THEN 0 ELSE CHOOSE i \in hits : \A j \in hits : i <= j

\* Python's truth value of el.get("x"): None and "" are false.
TruthyNever(opt) == FALSE
Truthy(opt) == opt # <<>> /\ opt[1] # ""

find_and_replace(rt, element_id, new_text) ==
  LET el == find(rt, element_id) IN
  IF el = 0 THEN [root |-> rt, raised |-> "none"]
  ELSE LET r1 == [rt EXCEPT ![el].text = str(new_text)]
           p  == rt[el].parent
       IN  IF p = 0
           THEN [root |-> r1, raised |-> "AttributeError"]
           ELSE LET parent_x == rt[p].x
                IN  IF Truthy(parent_x)
                    THEN [root |-> [r1 EXCEPT ![el].x = parent_x], raised |-> "none"]
                    ELSE [root |-> r1, raised |-> "none"]

\* dot_map.get(just_len, ' ' + '.'*just_len + ' ')
Dots(n) == [i \in 1..n |-> "."]
dot_string_short(just_len) ==
  CASE just_len = 0 -> <<>>
    [] just_len = 1 -> <<" ">>
    [] just_len = 2 -> <<".", " ">>
    [] OTHER        -> <<" ">> \o Dots(just_len - 2) \o <<" ">>
dot_string(just_len) ==
  CASE just_len = 0 -> <<>>
    [] just_len = 1 -> <<" ">>
    [] just_len = 2 -> <<".", " ">>
    [] OTHER        -> <<" ">> \o Dots(just_len) \o <<" ">>

justify_bare(rt, eid, new_text, length) ==
  LET nt       == IF new_text.kind = "int" THEN StrVal(FormatComma(new_text.n))
                  ELSE new_text
      r1       == find_and_replace(rt, eid, nt)
      just_len == Max(0, length - Len(str(new_text)))
  IN  IF r1.raised # "none" THEN r1
      ELSE find_and_replace(r1.root, eid \o "_dots", StrVal(dot_string(just_len)))
justify_format(rt, eid, new_text, length) ==
  LET nt       == IF new_text.kind = "int" THEN StrVal(FormatComma(new_text.n))
                  ELSE new_text
      r1       == find_and_replace(rt, eid, nt)
      just_len == Max(0, length - Len(str(nt)))
  IN  IF r1.raised # "none" THEN r1
      ELSE find_and_replace(r1.root, eid \o "_dots", StrVal(dot_string(just_len)))

(***************************************************************************)
(* Dates.  A datetime is [y, m, d, t]: a calendar day and a time of day t  *)
(* in units of half a day (0 is midnight).                                 *)
(***************************************************************************)
Date(y, m, d, t) == [y |-> y, m |-> m, d |-> d, t |-> t]

IsLeap(y) == (y % 4 = 0) /\ ((y % 100 # 0) \/ (y % 400 = 0))

LongMonths  == {1, 3, 5, 7, 8, 10, 12}
ShortMonths == {4, 6, 9, 11}

DaysInMonth(y, m) ==
  CASE m \in LongMonths  -> 31
    [] m \in ShortMonths -> 30
    [] OTHER                         -> IF IsLeap(y) THEN 29 ELSE 28

RECURSIVE DaysBeforeMonth(_, _)
DaysBeforeMonth(y, m) ==
  IF m = 1 THEN 0 ELSE DaysBeforeMonth(y, m - 1) + DaysInMonth(y, m - 1)

\* date.toordinal()
Ordinal(dt) ==
  LET y1 == dt.y - 1
  IN  365 * y1 + (y1 \div 4) - (y1 \div 100) + (y1 \div 400)
      + DaysBeforeMonth(dt.y, dt.m) + dt.d

\* dt1 < dt2 on datetimes
Before(dt1, dt2) ==
  \/ Ordinal(dt1) < Ordinal(dt2)
  \/ Ordinal(dt1) = Ordinal(dt2) /\ dt1.t < dt2.t

\* dt + relativedelta(months=k), k >= 0: the day is clipped to the month's length
AddMonths(dt, k) ==
  LET mm    == dt.m + (k % 12)
      year  == dt.y + (k \div 12) + (IF mm > 12 THEN 1 ELSE 0)
      month == IF mm > 12 THEN mm - 12 ELSE mm
  IN  Date(year, month, Min(DaysInMonth(year, month), dt.d), dt.t)

RECURSIVE AdjustMonths(_, _, _)
AdjustMonths(dt1, dt2, months) ==
  IF Before(dt1, AddMonths(dt2, months))
  THEN AdjustMonths(dt1, dt2, months - 1)
  ELSE months

\* relativedelta.relativedelta(dt1, dt2) for dt2 <= dt1
relativedelta(dt1, dt2) ==
  LET months == AdjustMonths(dt1, dt2, (dt1.y - dt2.y) * 12 + (dt1.m - dt2.m))
      dtm    == AddMonths(dt2, months)
      halves == (Ordinal(dt1) - Ordinal(dtm)) * 2 + (dt1.t - dtm.t)
  IN  [years |-> months \div 12, months |-> months % 12, days |-> halves \div 2]

\* 's'*(n!=1)
PluralAboveOne(n) == IF n > 1 THEN <<"s">> ELSE <<>>
Plural(n) == IF n # 1 THEN <<"s">> ELSE <<>>

uptime_string(bday, utcnow) ==
  LET diff == relativedelta(utcnow, bday)
  IN  IntToStr(diff.years) \o <<" ", "y", "e", "a", "r">> \o Plural(diff.years)
      \o <<",", " ">>
      \o IntToStr(diff.months) \o <<" ", "m", "o", "n", "t", "h">> \o Plural(diff.months)
      \o <<",", " ">>
      \o IntToStr(diff.days) \o <<" ", "d", "a", "y">> \o Plural(diff.days)

BIRTHDAY == Date(2004, 4, 4, 0)

(***************************************************************************)
(* SpecFR: find_and_replace called once on every document of at most       *)
(* MaxElems elements.                                                      *)
(***************************************************************************)
MaxElems == 3

OldText == <<"o", "l", "d">>
NewText == <<"n", "e", "w">>

DocIds   == {<<>>, <<"star_data">>, <<"repo_data">>}
DocXs    == {<<>>, <<"">>, <<"390">>}
CallIds  == {"star_data", "repo_data", "loc_del"}
CallTexts == {StrVal(NewText), IntVal(1234)}

RECURSIVE IsAncestorOrSelf(_, _, _)
IsAncestorOrSelf(par, a, i) ==
  IF i = 0 THEN FALSE
  ELSE IF a = i THEN TRUE ELSE IsAncestorOrSelf(par, a, par[i])

\* parent vectors of documents in document order
Shapes(k) ==
  {par \in [1..k -> 0..(k - 1)] :
     /\ par[1] = 0
     /\ \A i \in 2..k : par[i] >= 1 /\ IsAncestorOrSelf(par, par[i], i - 1)}

Docs(k) ==
  {[i \in 1..k |-> Elem(at[i][1], at[i][2], OldText, par[i])] :
     par \in Shapes(k), at \in [1..k -> DocIds \X DocXs]}

RunIdle ==
  /\ QUERY_COUNT = <<>> /\ server = <<>> /\ inflight = <<>> /\ issued = <<>>
  /\ responses = <<>> /\ now = <<>> /\ vals = <<>> /\ files = <<>>
  /\ writes = <<>> /\ error = <<>> /\ printed = <<>>

InitFR ==
  /\ pc = "call"
  /\ \E k \in 1..MaxElems : \E d \in Docs(k) : \E id \in CallIds :
       \E t \in CallTexts :
         /\ root = d
         /\ args = [root |-> d, element_id |-> id, new_text |-> t]
  /\ raised = "none" /\ out = <<>>
  /\ RunIdle

FindAndReplace ==
  /\ pc = "call"
  /\ LET r == find_and_replace(root, args.element_id, args.new_text)
     IN  root' = r.root /\ raised' = r.raised
  /\ pc' = "ret"
  /\ UNCHANGED <<args, out>>
  /\ UNCHANGED runVars

NextFR == FindAndReplace

SpecFR == InitFR /\ [][NextFR]_vars

(***************************************************************************)
(* SpecJF: justify_format called once on a small template.                 *)
(***************************************************************************)
MaxPad == 15

\* templates with and without the value element and its "_dots" companion
JFTemplates ==
  { << Elem(<<>>, <<>>, <<>>, 0), Elem(<<>>, <<"390">>, <<>>, 1),
       Elem(<<"star_data_dots">>, <<>>, OldText, 2),
       Elem(<<"star_data">>, <<>>, OldText, 2) >>,
    << Elem(<<>>, <<>>, <<>>, 0),
       Elem(<<"star_data">>, <<>>, OldText, 1) >>,
    << Elem(<<>>, <<>>, <<>>, 0),
       Elem(<<"star_data_dots">>, <<>>, OldText, 1) >>,
    << Elem(<<>>, <<>>, <<>>, 0), Elem(<<>>, <<>>, <<>>, 1) >> }

JFValues ==
  {IntVal(n) : n \in {0, 7, 999, 1000, 1234, 12345, 999999, 1234567, -1, -999, -1234}}
  \cup {StrVal(<<>>), StrVal(<<"0">>), StrVal(<<"1", "2", "3", "4">>),
        StrVal(uptime_string(BIRTHDAY, Date(2025, 11, 2, 1))),
        TupleVal(7, 0)}

InitJF ==
  /\ pc = "call"
  /\ \E d \in JFTemplates : \E v \in JFValues : \E w \in (-1)..MaxPad :
       /\ root = d
       /\ args = [root |-> d, eid |-> "star_data", new_text |-> v, length |-> w]
  /\ raised = "none" /\ out = <<>>
  /\ RunIdle

JustifyFormat ==
  /\ pc = "call"
  /\ LET r == justify_format(root, args.eid, args.new_text, args.length)
     IN  root' = r.root /\ raised' = r.raised
  /\ pc' = "ret"
  /\ UNCHANGED <<args, out>>
  /\ UNCHANGED runVars

NextJF == JustifyFormat

SpecJF == InitJF /\ [][NextJF]_vars

(***************************************************************************)
(* SpecUp: uptime_string called once, for birth dates at or before now.    *)
(***************************************************************************)
MaxYearsBack == 2

NowYears == {2024, 2025}
GridDays == {1, 4, 28, 29, 30, 31}
TimesOfDay == {0, 1}

GridDates(years) ==
  {Date(y, m, d, t) : y \in years, m \in 1..12, d \in GridDays, t \in TimesOfDay}

ValidDate(dt) == dt.d <= DaysInMonth(dt.y, dt.m)

Nows  == {dt \in GridDates(NowYears) : ValidDate(dt)}
Bdays ==
  {dt \in GridDates({y - k : y \in NowYears, k \in 0..MaxYearsBack}) : ValidDate(dt)}
  \cup {BIRTHDAY}

InitUp ==
  /\ pc = "call"
  /\ \E n \in Nows : \E b \in Bdays :
       /\ ~Before(n, b)
       /\ args = [bday |-> b, utcnow |-> n]
  /\ root = <<>> /\ raised = "none" /\ out = <<>>
  /\ RunIdle

UptimeString ==
  /\ pc = "call"
  /\ out' = uptime_string(args.bday, args.utcnow)
  /\ pc' = "ret"
  /\ UNCHANGED <<args, root, raised>>
  /\ UNCHANGED runVars

NextUp == UptimeString

SpecUp == InitUp /\ [][NextUp]_vars

(***************************************************************************)
(* Spec: the run of the script.                                            *)
(***************************************************************************)
USER_NAME == "Alans44"
SVG_FILES == <<"dark_mode.svg", "light_mode.svg">>

QueryKeys == {"user_getter", "follower_getter", "graph_repos_stars",
              "recursive_loc", "graph_commits", "loc_query"}

\* query_count(k)
query_count_forgotten(qc, k) == qc
query_count(qc, k) == [qc EXCEPT ![k] = qc[k] + 1]

RECURSIVE SumSeq(_)
SumSeq(sq) == IF sq = <<>> THEN 0 ELSE sq[1] + SumSeq(Tail(sq))

\* sum(QUERY_COUNT.values())
RECURSIVE SumOver(_, _)
SumOver(f, keys) ==
  IF keys = {} THEN 0
  ELSE LET k == CHOOSE k \in keys : TRUE IN f[k] + SumOver(f, keys \ {k})
SumCounts(qc) == SumOver(qc, DOMAIN qc)

\* ---- the remote API -------------------------------------------------------
PageFirst == 100          \* repositories(first:100, ...)
MaxOverflow == 1          \* owner repositories beyond the first page

OwnerAff == <<"OWNER">>
AllAff   == <<"OWNER", "COLLABORATOR", "ORGANIZATION_MEMBER">>

\* the repositories whose star count the model varies; every other one has 0
HotIdx   == {1, PageFirst, PageFirst + 1}
StarVals == {0, 1, 1234}
RepoCounts == {0, 1, PageFirst} \cup {PageFirst + k : k \in 1..MaxOverflow}
Statuses == {200, 401, 502}

Servers ==
  {[n |-> n, hot |-> h, extra |-> e, followers |-> f] :
     n \in RepoCounts, h \in [HotIdx -> StarVals], e \in {0, 1300}, f \in {1, 12345}}

\* stargazers.totalCount of the i-th repository of the listing
StarsOf(srv, i) == IF i <= srv.n /\ i \in HotIdx THEN srv.hot[i] ELSE 0

\* user.repositories(first:100, after:$cursor, ownerAffiliations:$aff)
Repositories(srv, aff, cursor) ==
  LET total  == IF aff = OwnerAff THEN srv.n ELSE srv.n + srv.extra
      offset == IF cursor = <<>> THEN 0 ELSE cursor[1]
      last   == Min(total, offset + PageFirst)
  IN  [totalCount  |-> total,
       edges       |-> [i \in 1..Max(0, last - offset) |-> StarsOf(srv, offset + i)],
       hasNextPage |-> last < total,
       endCursor   |-> IF last > offset THEN <<last>> ELSE <<>>]

Request(fname, kind, aff, cursor) ==
  [fname |-> fname, kind |-> kind, aff |-> aff, cursor |-> cursor]

\* the five requests of the script
UserRequest     == Request("user_getter", "-", <<>>, <<>>)
StarsRequest    == Request("graph_repos_stars", "stars", OwnerAff, <<>>)
ReposRequest    == Request("graph_repos_stars", "repos", OwnerAff, <<>>)
ContribRequest  == Request("graph_repos_stars", "repos", AllAff, <<>>)
FollowerRequest == Request("follower_getter", "-", <<>>, <<>>)

Response(status, totalCount) == [status_code |-> status, totalCount |-> totalCount]

\* simple_request: the response itself on 200, else the RuntimeError raised, whose
\* message is kept as the pieces of f"{fname} failed -> {r.status_code}: {r.text}"
RuntimeError(fname, r) ==
  [type |-> "RuntimeError",
   msg  |-> <<fname, " failed -> ", ToString(r.status_code), ": ", "body">>]
simple_request_lenient(fname, r) ==
  IF r.status_code < 500 THEN <<>> ELSE <<RuntimeError(fname, r)>>
simple_request(fname, r) ==
  IF r.status_code = 200 THEN <<>> ELSE <<RuntimeError(fname, r)>>

\* graph_repos_stars' return value from the repositories object of the response
graph_repos_stars_total(kind, r) ==
  IF kind = "repos" THEN r.totalCount ELSE r.totalCount
graph_repos_stars_result(kind, r) ==
  IF kind = "repos" THEN r.totalCount ELSE SumSeq(r.edges)

\* ---- templates --------------------------------------------------------------
DataIds == <<"age_data", "commit_data", "star_data", "repo_data", "contrib_data",
             "follower_data", "loc_data", "loc_add", "loc_del">>

\* a template with every field: <svg><text x="390"> tspans </text></svg>
TplFull ==
  <<Elem(<<>>, <<>>, <<>>, 0), Elem(<<>>, <<"390">>, <<>>, 1)>>
  \o [i \in 1..(2 * Len(DataIds)) |->
        IF i % 2 = 1 THEN Elem(<<DataIds[(i + 1) \div 2]>>, <<>>, OldText, 2)
        ELSE Elem(<<DataIds[i \div 2] \o "_dots">>, <<>>, OldText, 2)]

\* a template that omits optional fields
TplPartial ==
  <<Elem(<<>>, <<>>, <<>>, 0), Elem(<<>>, <<>>, <<>>, 1),
    Elem(<<"star_data">>, <<"15">>, OldText, 2),
    Elem(<<"star_data_dots">>, <<>>, OldText, 2),
    Elem(<<"contrib_data">>, <<>>, OldText, 2),
    Elem(<<"repo_data">>, <<>>, OldText, 1)>>

\* the content of a file: raw is what the bytes are when they do not parse
WellFormed(doc) == [wellformed |-> TRUE, doc |-> doc, raw |-> ""]
Malformed == [wellformed |-> FALSE, doc |-> <<>>, raw |-> "<svg><text"]
Truncated == [wellformed |-> FALSE, doc |-> <<>>, raw |-> ""]
FileContents == {WellFormed(TplFull), WellFormed(TplPartial), Malformed}

FileNames == {SVG_FILES[i] : i \in 1..Len(SVG_FILES)}

\* the nine substitutions of svg_overwrite, in order
Substitutions(v) ==
  << <<"age_data", v.age, 0>>,
     <<"commit_data", v.commit_data, 22>>,
     <<"star_data", v.star_data, 14>>,
     <<"repo_data", v.repo_data, 6>>,
     <<"contrib_data", v.contrib_data, 0>>,
     <<"follower_data", v.follower_data, 10>>,
     <<"loc_data", v.loc_total[3], 9>>,
     <<"loc_add", v.loc_total[1], 0>>,
     <<"loc_del", v.loc_total[2], 7>> >>

RECURSIVE ApplySubstitutions(_, _)
ApplySubstitutions(r, subs) ==
  IF subs = <<>> \/ r.raised # "none" THEN r
  ELSE ApplySubstitutions(
         justify_format(r.root, subs[1][1], subs[1][2], subs[1][3]), Tail(subs))

\* svg_overwrite on the content of the file: the content of the file afterwards
\* and the exception raised ("none", or the error that left the file as it was:
\* the file is opened for writing only by tree.write, the last statement)
svg_overwrite_truncating(content, v) ==
  IF ~content.wellformed
  THEN [content |-> Truncated, raised |-> "XMLSyntaxError"]
  ELSE LET r == ApplySubstitutions([root |-> content.doc, raised |-> "none"],
                                   Substitutions(v))
       IN  IF r.raised # "none" THEN [content |-> Truncated, raised |-> r.raised]
           ELSE [content |-> WellFormed(r.root), raised |-> "none"]
svg_overwrite(content, v) ==
  IF ~content.wellformed
  THEN [content |-> content, raised |-> "XMLSyntaxError"]
  ELSE LET r == ApplySubstitutions([root |-> content.doc, raised |-> "none"],
                                   Substitutions(v))
       IN  IF r.raised # "none" THEN [content |-> content, raised |-> r.raised]
           ELSE [content |-> WellFormed(r.root), raised |-> "none"]

\* ---- the run ------------------------------------------------------------------
\* commit_data=0;loc_total=['0','0','0']
CommitData == IntVal(0)
LocTotal   == <<StrVal(<<"0">>), StrVal(<<"0">>), StrVal(<<"0">>)>>

ConnectionError == [type |-> "ConnectionError", msg |-> <<>>]

NoneVal == [kind |-> "none", n |-> 0, m |-> 0, s |-> <<>>]
RunNows == {Date(2025, 4, 4, 0), Date(2026, 11, 2, 1)}

Init ==
  /\ pc = "user_getter"
  /\ QUERY_COUNT = [k \in QueryKeys |-> 0]
  /\ server \in Servers
  /\ \A i \in HotIdx : i > server.n => server.hot[i] = 0
  /\ inflight = <<>> /\ issued = <<>> /\ responses = <<>>
  /\ now = <<>>
  /\ vals = [age |-> NoneVal, commit_data |-> NoneVal, star_data |-> NoneVal,
             repo_data |-> NoneVal, contrib_data |-> NoneVal,
             follower_data |-> NoneVal, loc_total |-> <<>>]
  /\ files \in [FileNames -> FileContents]
  /\ writes = <<>> /\ error = <<>> /\ printed = <<>>
  /\ args = <<>> /\ root = <<>> /\ raised = "none" /\ out = <<>>

\* query_count(key), then requests.post(...) leaves the caller blocked
Send(at, key, req, wait) ==
  /\ pc = at
  /\ QUERY_COUNT' = query_count(QUERY_COUNT, key)
  /\ issued' = Append(issued, req)
  /\ inflight' = <<req>>
  /\ pc' = wait
  /\ UNCHANGED <<server, responses, now, vals, files, writes, error, printed>>
  /\ UNCHANGED fnVars

\* the response arrives: simple_request returns it or raises
Receive(wait, r, newvals, next) ==
  /\ pc = wait
  /\ responses' = Append(responses, r)
  /\ inflight' = <<>>
  /\ LET e == simple_request(inflight[1].fname, r)
     IN  IF e = <<>>
         THEN vals' = newvals /\ pc' = next /\ error' = error
         ELSE vals' = vals /\ pc' = "aborted" /\ error' = e
  /\ UNCHANGED <<QUERY_COUNT, server, issued, now, files, writes, printed>>
  /\ UNCHANGED fnVars

UserGetterSend ==
  Send("user_getter", "user_getter", UserRequest, "user_getter_wait")

UserGetterRecv ==
  \E st \in Statuses :
    Receive("user_getter_wait", Response(st, 0), vals, "uptime_string")

\* age, t_age = perf_counter(uptime_string, BIRTHDAY)
Uptime ==
  /\ pc = "uptime_string"
  /\ \E n \in RunNows :
       /\ now' = <<n>>
       /\ vals' = [vals EXCEPT !.age = StrVal(uptime_string(BIRTHDAY, n))]
  /\ pc' = "stars"
  /\ UNCHANGED <<QUERY_COUNT, server, inflight, issued, responses, files, writes,
                 error, printed>>
  /\ UNCHANGED fnVars

\* star_data,_ = graph_repos_stars('stars',["OWNER"]),0
StarsSend ==
  Send("stars", "graph_repos_stars", StarsRequest, "stars_wait")

StarsRecv ==
  \E st \in Statuses :
    LET r == Repositories(server, inflight[1].aff, inflight[1].cursor)
    IN  Receive("stars_wait", Response(st, r.totalCount),
                [vals EXCEPT !.star_data =
                   IntVal(graph_repos_stars_result("stars", r))],
                "repos")

\* repo_data,_ = graph_repos_stars('repos',["OWNER"]),0
ReposSend ==
  Send("repos", "graph_repos_stars", ReposRequest, "repos_wait")

ReposRecv ==
  \E st \in Statuses :
    LET r == Repositories(server, inflight[1].aff, inflight[1].cursor)
    IN  Receive("repos_wait", Response(st, r.totalCount),
                [vals EXCEPT !.repo_data =
                   IntVal(graph_repos_stars_result("repos", r))],
                "contrib")

\* contrib_data=_=graph_repos_stars('repos',[...]),0 : a chained assignment, so
\* contrib_data is bound to the whole tuple (count, 0)
ContribSend ==
  Send("contrib", "graph_repos_stars", ContribRequest, "contrib_wait")

ContribRecv ==
  \E st \in Statuses :
    LET r == Repositories(server, inflight[1].aff, inflight[1].cursor)
    IN  Receive("contrib_wait", Response(st, r.totalCount),
                [vals EXCEPT !.contrib_data =
                   TupleVal(graph_repos_stars_result("repos", r), 0)],
                "follower")

\* follower_data,_=follower_getter(USER_NAME),0
FollowerSend ==
  Send("follower", "follower_getter", FollowerRequest, "follower_wait")

\* ... then commit_data=0;loc_total=['0','0','0']
FollowerRecv ==
  \E st \in Statuses :
    Receive("follower_wait", Response(st, server.followers),
            [vals EXCEPT !.follower_data = IntVal(server.followers),
                         !.commit_data = CommitData,
                         !.loc_total = LocTotal],
            "svg")

\* requests.post itself raises (no connection): nothing catches it
NetworkFailure ==
  /\ inflight # <<>>
  /\ inflight' = <<>>
  /\ error' = <<ConnectionError>>
  /\ pc' = "aborted"
  /\ UNCHANGED <<QUERY_COUNT, server, issued, responses, now, vals, files, writes,
                 printed>>
  /\ UNCHANGED fnVars

\* one iteration of: for svg in SVG_FILES: svg_overwrite(svg, ...)
SvgOverwrite ==
  /\ pc = "svg"
  /\ Len(writes) < Len(SVG_FILES)
  /\ LET fname == SVG_FILES[Len(writes) + 1]
         r     == svg_overwrite(files[fname], vals)
     IN  /\ files' = [files EXCEPT ![fname] = r.content]
         /\ IF r.raised = "none"
            THEN /\ writes' = Append(writes, fname)
                 /\ pc' = pc /\ error' = error
            ELSE /\ writes' = writes
                 /\ pc' = "aborted"
                 /\ error' = <<[type |-> r.raised, msg |-> <<fname>>]>>
  /\ UNCHANGED <<QUERY_COUNT, server, inflight, issued, responses, now, vals,
                 printed>>
  /\ UNCHANGED fnVars

\* print('Total GraphQL calls:',sum(QUERY_COUNT.values()))
PrintTotal ==
  /\ pc = "svg"
  /\ Len(writes) = Len(SVG_FILES)
  /\ printed' = <<SumCounts(QUERY_COUNT)>>
  /\ pc' = "done"
  /\ UNCHANGED <<QUERY_COUNT, server, inflight, issued, responses, now, vals,
                 files, writes, error>>
  /\ UNCHANGED fnVars

Next ==
  \/ UserGetterSend \/ UserGetterRecv
  \/ Uptime
  \/ StarsSend \/ StarsRecv
  \/ ReposSend \/ ReposRecv
  \/ ContribSend \/ ContribRecv
  \/ FollowerSend \/ FollowerRecv
  \/ NetworkFailure
  \/ SvgOverwrite
  \/ PrintTotal

Spec == Init /\ [][Next]_vars

(***************************************************************************)
(* Properties.                                                             *)
(***************************************************************************)
\* the elements of doc that carry identifier id
Carriers(doc, id) == {i \in 1..Len(doc) : doc[i].id = <<id>>}

\* the first descendant of the root, in document order, that carries id (0: none)
FirstMatch(doc, id) ==
  LET below == Carriers(doc, id) \ {1}
  IN  IF below = {} THEN 0 ELSE CHOOSE i \in below : \A j \in below : i <= j

\* every element but el is what it was before the call
OthersUntouched(before, after, el) ==
  /\ Len(after) = Len(before)
  /\ \A i \in 1..Len(before) : i # el => after[i] = before[i]

\* C2: find_and_replace with an identifier that no element of the document
\* carries returns with the whole document as it was and raises nothing.
ThmC2_AbsentIdIsNoOp ==
  (pc = "ret" /\ "element_id" \in DOMAIN args
     /\ Carriers(args.root, args.element_id) = {})
  => (root = args.root /\ raised = "none")

\* a call has returned on a document of several elements, some with identifiers,
\* none of them the identifier asked for
WitC2_AbsentId ==
  /\ pc = "ret" /\ "element_id" \in DOMAIN args
  /\ Carriers(args.root, args.element_id) = {}
  /\ Len(args.root) >= 3
  /\ \E i \in 2..Len(args.root) : args.root[i].id # <<>>
  /\ root = args.root

\* C7 as stated: the matched element takes its parent's x whenever the parent
\* declares one, the empty string included; otherwise its x stays; nothing else
\* changes but the matched element's text.
CexC7_CopiesAnyDeclaredX ==
  (pc = "ret" /\ "element_id" \in DOMAIN args
     /\ FirstMatch(args.root, args.element_id) # 0)
  => LET el     == FirstMatch(args.root, args.element_id)
         parent == args.root[args.root[el].parent]
     IN  /\ parent.x # <<>> => root[el].x = parent.x
         /\ parent.x = <<>> => root[el].x = args.root[el].x
         /\ root[el].id = args.root[el].id
         /\ root[el].parent = args.root[el].parent
         /\ OthersUntouched(args.root, root, el)

\* C7, amended: the matched element takes its parent's x when the parent declares
\* a non-empty x; when the parent declares none or an empty one, its x stays as
\* it was.  Only the first matching element changes (its text becomes the new
\* text) and no other element changes.
ThmC7_CopiesNonEmptyX ==
  (pc = "ret" /\ "element_id" \in DOMAIN args
     /\ FirstMatch(args.root, args.element_id) # 0)
  => LET el     == FirstMatch(args.root, args.element_id)
         parent == args.root[args.root[el].parent]
     IN  /\ (parent.x # <<>> /\ parent.x # <<"">>) => root[el].x = parent.x
         /\ (parent.x = <<>> \/ parent.x = <<"">>) => root[el].x = args.root[el].x
         /\ root[el].text = str(args.new_text)
         /\ root[el].id = args.root[el].id
         /\ root[el].parent = args.root[el].parent
         /\ OthersUntouched(args.root, root, el)
         /\ raised = "none"

\* two elements carry the identifier; the first one's parent declares x="390",
\* which the call copied onto an element that had another x
WitC7_CopiedX ==
  /\ pc = "ret" /\ "element_id" \in DOMAIN args
  /\ Cardinality(Carriers(args.root, args.element_id) \ {1}) >= 2
  /\ LET el == FirstMatch(args.root, args.element_id)
     IN  /\ args.root[args.root[el].parent].x = <<"390">>
         /\ args.root[el].x = <<"">>
         /\ root[el].x = <<"390">>

\* the string justify_format writes for a value: integers with separators
Written(v) == IF v.kind = "int" THEN FormatComma(v.n) ELSE str(v)

\* the dot-leader of padding-figure n, as the specification describes it
IsLeader(t, n) ==
  CASE n = 0 -> t = <<>>
    [] n = 1 -> t = <<" ">>
    [] n = 2 -> t = <<".", " ">>
    [] OTHER -> /\ Len(t) = n + 2
                /\ t[1] = " " /\ t[n + 2] = " "
                /\ \A i \in 2..(n + 1) : t[i] = "."

\* C3: justify_format writes to "<id>_dots" the dot-leader of
\* n = max(0, pad_width - length of the written value string).
ThmC3_DotLeader ==
  (pc = "ret" /\ "eid" \in DOMAIN args
     /\ FirstMatch(args.root, args.eid \o "_dots") # 0)
  => LET dots == root[FirstMatch(args.root, args.eid \o "_dots")].text
         n    == Max(0, args.length - Len(Written(args.new_text)))
     IN  /\ IsLeader(dots, n)
         /\ (args.length = 0 \/ Len(Written(args.new_text)) >= args.length)
              => dots = <<>>

\* a value shorter than the width by at least three was written, with its leader
WitC3_LongLeader ==
  /\ pc = "ret" /\ "eid" \in DOMAIN args
  /\ FirstMatch(args.root, args.eid \o "_dots") # 0
  /\ args.new_text.kind = "str"
  /\ args.length - Len(Written(args.new_text)) >= 3
  /\ Len(root[FirstMatch(args.root, args.eid \o "_dots")].text) >= 5

\* t is v in decimal with a comma before every group of three digits
IsSeparated(t, v) ==
  LET body == IF v < 0 THEN Tail(t) ELSE t
      mag  == IF v < 0 THEN -v ELSE v
  IN  /\ v < 0 => (t # <<>> /\ t[1] = "-")
      /\ body # <<>> /\ body[1] # ","
      /\ SelectSeq(body, LAMBDA c : c # ",") = NatToStr(mag)
      /\ \A i \in 1..Len(body) : (body[i] = ",") <=> ((Len(body) - i + 1) % 4 = 0)

\* C4: for an integer, justify_format sets "<id>" to the integer with thousands
\* separators and pads by the length of that separated string; star count 1234
\* at width 14 gives "1,234" and a space, nine dots and a space.
ThmC4_SeparatorsCounted ==
  (pc = "ret" /\ "eid" \in DOMAIN args /\ args.new_text.kind = "int"
     /\ FirstMatch(args.root, args.eid) # 0
     /\ FirstMatch(args.root, args.eid \o "_dots") # 0)
  => LET t    == root[FirstMatch(args.root, args.eid)].text
         dots == root[FirstMatch(args.root, args.eid \o "_dots")].text
         n    == Max(0, args.length - Len(t))
     IN  /\ IsSeparated(t, args.new_text.n)
         /\ Len(dots) = (IF n <= 2 THEN n ELSE n + 2)
         /\ (args.new_text.n = 1234 /\ args.length = 14)
              => /\ t = <<"1", ",", "2", "3", "4">>
                 /\ dots = <<" ", ".", ".", ".", ".", ".", ".", ".", ".", ".", " ">>

\* star count 1234 was rendered at width 14 into a template with both elements
WitC4_Star1234 ==
  /\ pc = "ret" /\ "eid" \in DOMAIN args
  /\ args.eid = "star_data" /\ args.length = 14
  /\ args.new_text.kind = "int" /\ args.new_text.n = 1234
  /\ FirstMatch(args.root, "star_data") # 0
  /\ FirstMatch(args.root, "star_data_dots") # 0
  /\ root[FirstMatch(args.root, "star_data")].text = <<"1", ",", "2", "3", "4">>

\* ---- the age string ---------------------------------------------------------
\* dt - relativedelta(years=k)
MinusYears(dt, k) ==
  Date(dt.y - k, dt.m, Min(dt.d, DaysInMonth(dt.y - k, dt.m)), dt.t)

\* the pieces of s between the separators ", "
RECURSIVE SplitParts(_)
SplitParts(s) ==
  IF \A i \in 1..Len(s) : s[i] # "," THEN <<s>>
  ELSE LET c == CHOOSE i \in 1..Len(s) : s[i] = "," /\ \A j \in 1..(i - 1) : s[j] # ","
       IN  <<SubSeq(s, 1, c - 1)>> \o SplitParts(SubSeq(s, c + 2, Len(s)))

\* the text of a piece before and after its first space
NumberOf(part) ==
  LET c == CHOOSE i \in 1..Len(part) : part[i] = " " /\ \A j \in 1..(i - 1) : part[j] # " "
  IN  SubSeq(part, 1, c - 1)
WordOf(part) ==
  LET c == CHOOSE i \in 1..Len(part) : part[i] = " " /\ \A j \in 1..(i - 1) : part[j] # " "
  IN  SubSeq(part, c + 1, Len(part))

UnitWords == << <<"y", "e", "a", "r">>, <<"m", "o", "n", "t", "h">>, <<"d", "a", "y">> >>

\* C5: a birth date exactly N years before now gives year component N, and each
\* unit word ends in "s" exactly when its value is not 1 (0 included).
ThmC5_YearsAndPlurals ==
  (pc = "ret" /\ "bday" \in DOMAIN args)
  => LET parts == SplitParts(out)
         N     == args.utcnow.y - args.bday.y
     IN  /\ Len(parts) = 3
         /\ args.bday = MinusYears(args.utcnow, N) => NumberOf(parts[1]) = IntToStr(N)
         /\ \A k \in 1..3 :
              WordOf(parts[k]) =
                (IF NumberOf(parts[k]) = <<"1">> THEN UnitWords[k]
                 ELSE UnitWords[k] \o <<"s">>)

\* now is 29 February and the birth date one year before it (28 February):
\* one year (singular), no months (plural), one day
WitC5_OneYearZeroMonths ==
  /\ pc = "ret" /\ "bday" \in DOMAIN args
  /\ args.utcnow.m = 2 /\ args.utcnow.d = 29
  /\ args.bday = MinusYears(args.utcnow, 1)
  /\ NumberOf(SplitParts(out)[1]) = <<"1">>
  /\ NumberOf(SplitParts(out)[2]) = <<"0">>

\* ---- the run ---------------------------------------------------------------
\* the five requests of a run, in the order of the script
RunOrder ==
  <<UserRequest, StarsRequest, ReposRequest, ContribRequest, FollowerRequest>>

Contains(msg, piece) == \E i \in 1..Len(msg) : msg[i] = piece

\* C1: a response whose status is not 200 ends the run with an error naming the
\* failing call and the status; that request is the last one issued, it is
\* issued once, nothing more can happen and no template has been written.
ThmC1_Non200Aborts ==
  \A k \in 1..Len(responses) :
    responses[k].status_code # 200
    => /\ pc = "aborted"
       /\ error # <<>> /\ error[1].type = "RuntimeError"
       /\ Contains(error[1].msg, issued[k].fname)
       /\ Contains(error[1].msg, ToString(responses[k].status_code))
       /\ Len(issued) = k /\ Len(responses) = k /\ inflight = <<>>
       /\ \A j \in 1..(k - 1) : issued[j] # issued[k]
       /\ writes = <<>>
       /\ \A f \in FileNames : files[f] \in FileContents
       /\ ~ENABLED Next

\* the third request (repository count of the owner) was answered 502
WitC1_ThirdCallFails ==
  /\ Len(responses) = 3
  /\ responses[3].status_code = 502
  /\ issued[3].fname = "graph_repos_stars"
  /\ pc = "aborted"

\* the text of the first element of a file that carries id (<<>>: none does)
TextIn(content, id) ==
  IF content.wellformed /\ FirstMatch(content.doc, id) # 0
  THEN <<content.doc[FirstMatch(content.doc, id)].text>>
  ELSE <<>>

\* C6 as stated: the renderer receives the repository totalCount of the third
\* graph_repos_stars request as contributed-repo-count, and contrib_data shows
\* it as a number with thousands separators, the way repo_data is written.
CexC6_ContribIsTheCount ==
  pc = "done"
  => /\ vals.contrib_data = IntVal(responses[4].totalCount)
     /\ \A f \in FileNames :
          TextIn(files[f], "contrib_data") # <<>>
          => TextIn(files[f], "contrib_data") = <<FormatComma(responses[4].totalCount)>>

\* C8: requests go out one at a time in the fixed order, each answered (200)
\* before the next; no file is written before all five succeeded; files are
\* written in the order of SVG_FILES; the counters always sum to the number of
\* requests issued, and a successful run reports 5.
ThmC8_SequentialRun ==
  /\ Len(issued) <= Len(RunOrder)
  /\ issued = SubSeq(RunOrder, 1, Len(issued))
  /\ Len(inflight) <= 1
  /\ inflight # <<>> => (inflight[1] = issued[Len(issued)]
                          /\ Len(responses) = Len(issued) - 1)
  /\ \A k \in 2..Len(issued) :
       Len(responses) >= k - 1 /\ responses[k - 1].status_code = 200
  /\ writes # <<>> =>
       /\ Len(responses) = Len(RunOrder)
       /\ \A k \in 1..Len(responses) : responses[k].status_code = 200
  /\ Len(writes) <= Len(SVG_FILES)
  /\ writes = SubSeq(SVG_FILES, 1, Len(writes))
  /\ SumCounts(QUERY_COUNT) = Len(issued)
  /\ printed # <<>> => pc = "done"
  /\ pc = "done" => (printed = <<5>> /\ writes = SVG_FILES)

\* a run ended successfully and reported its total
WitC8_Done ==
  /\ pc = "done" /\ printed = <<5>>
  /\ Len(issued) = 5 /\ writes = SVG_FILES

\* the run got as far as rendering and has ended
RenderEnded ==
  \/ pc = "done"
  \/ pc = "aborted" /\ error[1].type = "XMLSyntaxError"

\* C9 as stated: a template is rewritten whether or not another template of
\* the list parses: once the run has ended in the rendering loop, every
\* well-formed template of SVG_FILES has been rewritten.
CexC9_Independent ==
  RenderEnded
  => \A i \in 1..Len(SVG_FILES) :
       files[SVG_FILES[i]].wellformed => Contains(writes, SVG_FILES[i])

\* C9, amended: when parsing of a template fails the run aborts with that file
\* unchanged on disk; the templates before it in SVG_FILES have been rewritten
\* and those after it have not, so a well-formed template is rewritten only when
\* no template before it is malformed.
ThmC9_AbortsAtFirstMalformed ==
  (pc = "aborted" /\ error[1].type = "XMLSyntaxError")
  => LET k == Len(writes) + 1
     IN  /\ k <= Len(SVG_FILES)
         /\ error[1].msg = <<SVG_FILES[k]>>
         /\ files[SVG_FILES[k]] = Malformed
         /\ \A i \in 1..(k - 1) :
              writes[i] = SVG_FILES[i] /\ files[SVG_FILES[i]].wellformed
         /\ \A i \in (k + 1)..Len(SVG_FILES) :
              /\ ~Contains(writes, SVG_FILES[i])
              /\ files[SVG_FILES[i]] \in FileContents
         /\ ~ENABLED Next

\* the second template is malformed: the first was rewritten, then the run aborted
WitC9_SecondMalformed ==
  /\ pc = "aborted" /\ error[1].type = "XMLSyntaxError"
  /\ writes = <<SVG_FILES[1]>>
  /\ files[SVG_FILES[2]] = Malformed

\* the stars of the owner's repositories, over all of them and over the first page
StarsUpTo(srv, last) ==
  SumOver([i \in HotIdx |-> IF i <= last THEN srv.hot[i] ELSE 0], HotIdx)
AllStars(srv)       == StarsUpTo(srv, srv.n)
FirstPageStars(srv) == StarsUpTo(srv, Min(srv.n, PageFirst))

StarRequests == {k \in 1..Len(issued) : issued[k].kind = "stars"}

\* C10: the run issues one star request, with a null cursor; the star count it
\* writes is the sum over the edges of the first page (at most 100
\* repositories), never more than the sum over all repositories.
ThmC10_FirstPageStars ==
  /\ Cardinality(StarRequests) <= 1
  /\ \A k \in StarRequests : issued[k].cursor = <<>> /\ issued[k].aff = OwnerAff
  /\ (pc = "svg" \/ pc = "done") => Cardinality(StarRequests) = 1
  /\ vals.star_data.kind = "int" =>
       /\ vals.star_data.n = FirstPageStars(server)
       /\ vals.star_data.n <= AllStars(server)
  /\ \A i \in 1..Len(writes) :
       TextIn(files[writes[i]], "star_data") = <<FormatComma(FirstPageStars(server))>>

\* the user has more repositories than a page holds, one beyond the page has
\* stars, and the run has written the first page's sum
WitC10_SecondPageIgnored ==
  /\ pc = "done"
  /\ server.n > PageFirst
  /\ FirstPageStars(server) = 1234
  /\ FirstPageStars(server) < AllStars(server)
  /\ TextIn(files[SVG_FILES[1]], "star_data") = <<FormatComma(1234)>>

====
